---- MODULE Spec2Model ----
(***************************************************************************)
(* Model of the elysia-broadcast BroadcastManager (the subscription        *)
(* registry) and of the SSE stream route built on it.                      *)
(*                                                                         *)
(* Strings are sequences of one-character strings, so that the template    *)
(* literal that builds a registry key is computed, not assumed injective.  *)
(* A JavaScript Set is a duplicate-free sequence in insertion order.       *)
(* A broadcast is a stack frame that walks the Set element by element;     *)
(* while a plain callback runs it may call back into the manager.          *)
(***************************************************************************)
EXTENDS Integers, Sequences, FiniteSets, TLC

\* ---------------------------------------------------------------- bounds
MaxSubs == 2      \* subscribe calls in one behaviour
MaxFrames == 1    \* event frames on a connection before broadcasting stops
MaxDepth == 2     \* broadcast calls active at once, one inside a callback of the other
MaxLen == 2       \* characters in an html or data string of an encoded event

\* ---------------------------------------------------------------- values
Channels == { <<"a">>, <<"a", ":", "b">> }

Num(n) == [t |-> "num", n |-> n, s |-> <<>>]
Str(s) == [t |-> "str", n |-> 0, s |-> s]
\* an object passed where a userId is expected (broadcast called with two arguments)
ObjectArg == [t |-> "obj", n |-> 0, s |-> <<>>]
\* a missing value passed where a userId is expected
Undefined == [t |-> "undef", n |-> 0, s |-> <<>>]

UserIds == { Num(1), Str(<<"1">>), Str(<<"b", ":", "1">>) }
\* the (channel, userId) pairs application code uses
Pairs == { <<<<"a">>, Num(1)>>, <<<<"a">>, Str(<<"1">>)>>,
           <<<<"a">>, Str(<<"b", ":", "1">>)>>, <<<<"a", ":", "b">>, Num(1)>> }

\* plain callbacks handed to subscribe by application code
Callbacks == {"f", "g"}
\* SSE connections; each owns the listener closure created in start()
Conns == {"c1", "c2"}
Listeners == Callbacks \cup Conns

\* events; "eCirc" has a circular data field, which JSON.stringify rejects
Events == {"e1", "e2"}
StreamEvents == Events \cup {"eCirc"}
NoEvent == "undefined"

Digit == <<"0", "1", "2", "3", "4", "5", "6", "7", "8", "9">>

RECURSIVE NumberToString(_)
NumberToString(n) ==
    IF n < 10 THEN <<Digit[n + 1]>>
    ELSE NumberToString(n \div 10) \o <<Digit[(n % 10) + 1]>>

\* String conversion applied by a template literal
ToStr(v) ==
    CASE v.t = "num" -> NumberToString(v.n)
      [] v.t = "str" -> v.s
      [] v.t = "obj" -> <<"[object Object]">>
      [] OTHER -> <<"undefined">>

getChannelKey(channel, userId) == channel \o <<":">> \o ToStr(userId)

\* ---------------------------------------------------------------- Set and Map
Range(s) == { s[i] : i \in 1..Len(s) }

\* variant: a new element goes in front of the others
SetAddFront(s, x) == IF x \in Range(s) THEN s ELSE <<x>> \o s

\* variant: an array of callbacks, where adding twice stores twice
SetAddAgain(s, x) == Append(s, x)

SetAdd(s, x) == IF x \in Range(s) THEN s ELSE Append(s, x)

SetDelete(s, x) == SelectSeq(s, LAMBDA y : y # x)

MapSet(m, k, v) == [j \in (DOMAIN m) \cup {k} |-> IF j = k THEN v ELSE m[j]]

MapDelete(m, k) == [j \in (DOMAIN m) \ {k} |-> m[j]]

EmptyMap == [j \in {} |-> <<>>]

\* ---------------------------------------------------------------- state
VARIABLES
    connections,  \* Map<string, Set<BroadcastCallback>> of the manager that
                  \* broadcastPlugin creates and puts in the store (store.broadcast)
    singleton,    \* the same Map of the exported instance, broadcastManager
    handles,      \* the cleanup closures returned by subscribe, in call order,
                  \* each with the number of times it was invoked (0, 1, 2 = more)
                  \* and, as history where it is kept, whether clearChannel or
                  \* clearAll has removed its callback from under its key
    registered,   \* history: the (channel, userId, listener) subscribed and since then
                  \* neither removed by a handle of that triple nor cleared for that pair
    stack,        \* broadcasts in progress, innermost last
    streams,      \* per connection: the SSE route handler's stream
    wire          \* one run of the listener's encoder, character by character:
                  \* the event it was given and what it enqueued

vars == <<connections, singleton, handles, registered, stack, streams, wire>>

\* ---------------------------------------------------------------- broadcast frames
NoListener == "none"

\* One call of broadcast. Program state: key, event, todo (the elements forEach
\* has still to visit), attached (the Set is still the Map's entry for key), st
\* ("iter" between callbacks, "in" inside one, "raised" when an exception is
\* leaving the call), cur. History, read by the properties only: chan, uid, wide
\* and arg (the call as written), start (the Set at entry), invoked, failed
\* (listeners whose write was caught), expect (the listeners registered under the
\* pair, or the channel, at entry), pure (no registry call ran during the call).
NewFrame(channel, userId, event, wide, arg) ==
    LET key == getChannelKey(channel, userId)
        found == key \in DOMAIN connections
    IN [ key |-> key, chan |-> channel, uid |-> userId, event |-> event,
         wide |-> wide, arg |-> arg,
         start |-> IF found THEN connections[key] ELSE <<>>,
         todo |-> IF found THEN connections[key] ELSE <<>>,
         attached |-> found,
         st |-> "iter", cur |-> NoListener, invoked |-> <<>>, failed |-> {},
         expect |-> IF wide
                    THEN { r[3] : r \in { q \in registered : q[1] = channel } }
                    ELSE { r[3] : r \in { q \in registered : q[1] = channel /\ q[2] = userId } },
         pure |-> TRUE ]

Depth == Len(stack)
Top == stack[Depth]

\* application code runs either outside any broadcast or inside a running callback
CanCall == IF Depth = 0 THEN TRUE ELSE Top.st = "in"

\* effect of Set.add / Set.delete / Map.delete on the forEach loops in progress
OnAdd(stk, k, x) ==
    [i \in DOMAIN stk |->
        IF stk[i].attached /\ stk[i].key = k
        THEN [stk[i] EXCEPT !.todo = Append(@, x)] ELSE stk[i]]

OnDelete(stk, k, x) ==
    [i \in DOMAIN stk |->
        IF stk[i].attached /\ stk[i].key = k
        THEN [stk[i] EXCEPT !.todo = SetDelete(@, x)] ELSE stk[i]]

OnDrop(stk, ks) ==
    [i \in DOMAIN stk |->
        IF stk[i].attached /\ stk[i].key \in ks
        THEN [stk[i] EXCEPT !.attached = FALSE] ELSE stk[i]]

Touch(stk) == [i \in DOMAIN stk |-> [stk[i] EXCEPT !.pure = FALSE]]

\* ---------------------------------------------------------------- BroadcastManager
\* subscribe: the registry after the call
SubscribeMap(m, key, callback) ==
    LET m1 == IF key \in DOMAIN m THEN m ELSE MapSet(m, key, <<>>)
    IN MapSet(m1, key, SetAdd(m1[key], callback))

\* variant: the cleanup drops the whole entry, as clearChannel does
CleanupMapDropKey(m, key, callback) == MapDelete(m, key)

\* variant: the cleanup forgets to delete the entry of an emptied Set
CleanupMapKeepEmpty(m, key, callback) ==
    IF key \in DOMAIN m THEN MapSet(m, key, SetDelete(m[key], callback)) ELSE m

\* variant: the cleanup creates the entry it does not find
CleanupMapRecreatesKey(m, key, callback) ==
    IF key \in DOMAIN m
    THEN LET channelCallbacks == SetDelete(m[key], callback)
         IN IF Len(channelCallbacks) = 0
            THEN MapDelete(m, key)
            ELSE MapSet(m, key, channelCallbacks)
    ELSE MapSet(m, key, <<>>)

\* variant: the cleanup leaves the Set alone
CleanupMapNoOp(m, key, callback) == m

\* the cleanup closure returned by subscribe: the registry after the call
CleanupMap(m, key, callback) ==
    IF key \in DOMAIN m
    THEN LET channelCallbacks == SetDelete(m[key], callback)
         IN IF Len(channelCallbacks) = 0
            THEN MapDelete(m, key)
            ELSE MapSet(m, key, channelCallbacks)
    ELSE m

getConnectionCount(channel, userId) ==
    LET key == getChannelKey(channel, userId)
    IN IF key \in DOMAIN connections THEN Len(connections[key]) ELSE 0

getActiveChannels == DOMAIN connections

\* variant: the total counts the keys, not the listeners under them
TotalOfKeys(m, ks) == Cardinality(ks)

\* the accumulation of getTotalConnections: total += callbacks.size, over the
\* entries ks of the Map
RECURSIVE TotalOf(_, _)
TotalOf(m, ks) ==
    IF ks = {} THEN 0
    ELSE LET k == CHOOSE x \in ks : TRUE
         IN Len(m[k]) + TotalOf(m, ks \ {k})

getTotalConnections == TotalOf(connections, DOMAIN connections)

DoSubscribe(channel, userId, callback) ==
    LET key == getChannelKey(channel, userId)
        added == ~(key \in DOMAIN connections /\ callback \in Range(connections[key]))
    IN /\ Len(handles) < MaxSubs
       /\ connections' = SubscribeMap(connections, key, callback)
       /\ handles' = Append(handles, [key |-> key, cb |-> callback, chan |-> channel,
                                      uid |-> userId, calls |-> 0,
                                      cleared |-> FALSE])
       /\ registered' = registered \cup {<<channel, userId, callback>>}
       /\ stack' = Touch(IF added THEN OnAdd(stack, key, callback) ELSE stack)

DoCleanup(h) ==
    LET hd == handles[h]
        after == CleanupMap(connections, hd.key, hd.cb)
    IN /\ connections' = after
       /\ handles' = [handles EXCEPT ![h].calls = IF @ = 0 THEN 1 ELSE 2]
       /\ registered' = registered \ {<<hd.chan, hd.uid, hd.cb>>}
       /\ stack' = Touch(OnDrop(OnDelete(stack, hd.key, hd.cb),
                                (DOMAIN connections) \ (DOMAIN after)))

Subscribe(channel, userId, callback) ==
    /\ CanCall
    /\ DoSubscribe(channel, userId, callback)
    /\ UNCHANGED <<streams, singleton, wire>>

Unsubscribe(h) ==
    /\ CanCall
    /\ DoCleanup(h)
    /\ UNCHANGED <<streams, singleton, wire>>

\* history: the handles whose callback a clear removes from under their key
MarkCleared(hs, after) ==
    [h \in DOMAIN hs |->
        IF /\ hs[h].key \in (DOMAIN connections) \ (DOMAIN after)
           /\ hs[h].cb \in Range(connections[hs[h].key])
        THEN [hs[h] EXCEPT !.cleared = TRUE] ELSE hs[h]]

ClearChannel(channel, userId) ==
    LET key == getChannelKey(channel, userId)
    IN /\ CanCall
       /\ connections' = MapDelete(connections, key)
       /\ registered' = { r \in registered : ~(r[1] = channel /\ r[2] = userId) }
       /\ stack' = Touch(OnDrop(stack, {key}))
       /\ UNCHANGED <<handles, streams, singleton, wire>>

\* variant: clearAll drops one entry of the Map and keeps the others
ClearAllOneEntry ==
    LET after == IF connections = EmptyMap THEN EmptyMap
                 ELSE MapDelete(connections, CHOOSE k \in DOMAIN connections : TRUE)
    IN /\ CanCall
       /\ connections' = after
       /\ registered' = {}
       /\ stack' = Touch(OnDrop(stack, (DOMAIN connections) \ (DOMAIN after)))
       /\ UNCHANGED <<handles, streams, singleton, wire>>

ClearAll ==
    /\ CanCall
    /\ connections' = EmptyMap
    /\ registered' = {}
    /\ stack' = Touch(OnDrop(stack, DOMAIN connections))
    /\ UNCHANGED <<handles, streams, singleton, wire>>

\* clearChannel and clearAll with the history of the handles kept: the handles
\* whose callback the call removes are marked
ClearChannelTracked(channel, userId) ==
    LET key == getChannelKey(channel, userId)
    IN /\ CanCall
       /\ connections' = MapDelete(connections, key)
       /\ handles' = MarkCleared(handles, MapDelete(connections, key))
       /\ registered' = { r \in registered : ~(r[1] = channel /\ r[2] = userId) }
       /\ stack' = Touch(OnDrop(stack, {key}))
       /\ UNCHANGED <<streams, singleton, wire>>

ClearAllTracked ==
    /\ CanCall
    /\ connections' = EmptyMap
    /\ handles' = MarkCleared(handles, EmptyMap)
    /\ registered' = {}
    /\ stack' = Touch(OnDrop(stack, DOMAIN connections))
    /\ UNCHANGED <<streams, singleton, wire>>

\* variant: broadcast looks its Set up the way subscribe does, creating it
StartBroadcastCreatesEntry(channel, userId, event, wide, arg) ==
    LET key == getChannelKey(channel, userId)
    IN /\ CanCall
       /\ Depth = 0
       /\ \A c \in Conns : Len(streams[c].out) <= MaxFrames
       /\ stack' = Append(stack, NewFrame(channel, userId, event, wide, arg))
       /\ connections' = IF key \in DOMAIN connections THEN connections
                         ELSE MapSet(connections, key, <<>>)
       /\ UNCHANGED <<handles, registered, streams, singleton, wire>>

\* broadcast(channel, userId, event): entry, up to the forEach
StartBroadcast(channel, userId, event, wide, arg) ==
    /\ CanCall
    /\ Depth = 0
    /\ \A c \in Conns : Len(streams[c].out) <= MaxFrames
    /\ stack' = Append(stack, NewFrame(channel, userId, event, wide, arg))
    /\ UNCHANGED <<connections, handles, registered, streams, singleton, wire>>

Broadcast(channel, userId, event) ==
    StartBroadcast(channel, userId, event, FALSE, event)

\* broadcast(channel, event): the two-argument call of the tests and the example;
\* the event lands in the userId parameter and the event parameter is undefined
BroadcastToChannel(channel, event) ==
    StartBroadcast(channel, ObjectArg, NoEvent, TRUE, event)

SetTop(f) == [stack EXCEPT ![Depth] = f]

\* forEach hands the next element of the Set to a plain callback
Invoke ==
    /\ Depth > 0
    /\ Top.st = "iter"
    /\ Top.todo # <<>>
    /\ Head(Top.todo) \in Callbacks
    /\ stack' = SetTop([Top EXCEPT !.st = "in", !.cur = Head(Top.todo),
                                   !.todo = Tail(@),
                                   !.invoked = Append(@, <<Head(Top.todo), Top.event>>)])
    /\ UNCHANGED <<connections, handles, registered, streams, singleton, wire>>

\* the running callback returns normally
Return ==
    /\ Depth > 0
    /\ Top.st = "in"
    /\ stack' = SetTop([Top EXCEPT !.st = "iter", !.cur = NoListener])
    /\ UNCHANGED <<connections, handles, registered, streams, singleton, wire>>

\* variant: broadcast removes a listener that threw from the Set
ThrowEvicts ==
    /\ Depth > 0
    /\ Top.st = "in"
    /\ stack' = SetTop([Top EXCEPT !.st = "raised"])
    /\ connections' = CleanupMap(connections, Top.key, Top.cur)
    /\ UNCHANGED <<handles, registered, streams, singleton, wire>>

\* the running callback throws: nothing in broadcast catches it
Throw ==
    /\ Depth > 0
    /\ Top.st = "in"
    /\ stack' = SetTop([Top EXCEPT !.st = "raised"])
    /\ UNCHANGED <<connections, handles, registered, streams, singleton, wire>>

\* broadcast returns, or the exception leaves it
Finish ==
    /\ Depth > 0
    /\ Top.st = "raised" \/ (Top.st = "iter" /\ Top.todo = <<>>)
    /\ stack' = SubSeq(stack, 1, Depth - 1)
    /\ UNCHANGED <<connections, handles, registered, streams, singleton, wire>>

\* a running callback calls broadcast: the call runs to its end inside the callback.
\* A callback publishes at most once per invocation.
NestedBroadcast(channel, userId, event) ==
    /\ Depth > 0
    /\ Depth < MaxDepth
    /\ Top.st = "in"
    /\ Len(Top.invoked[Len(Top.invoked)]) = 2
    /\ stack' = Append(stack, NewFrame(channel, userId, event, FALSE, event))
    /\ UNCHANGED <<connections, handles, registered, streams, singleton, wire>>

\* history: the deliveries of a broadcast made inside a callback, marked with the
\* key of that broadcast, as they join the deliveries of the call around it
InnerDeliveries(f) ==
    [i \in DOMAIN f.invoked |->
        IF Len(f.invoked[i]) = 2
        THEN <<f.invoked[i][1], f.invoked[i][2], f.key>>
        ELSE f.invoked[i]]

\* the broadcast made inside a callback returns to that callback, or its
\* exception reaches it; the callback goes on
NestedFinish ==
    /\ Depth > 1
    /\ Top.st = "raised" \/ (Top.st = "iter" /\ Top.todo = <<>>)
    /\ stack' = Append(SubSeq(stack, 1, Depth - 2),
                       [stack[Depth - 1] EXCEPT !.invoked = @ \o InnerDeliveries(Top)])
    /\ UNCHANGED <<connections, handles, registered, streams, singleton, wire>>

\* forEach hands the next element of the Set to a plain callback; the history
\* of deliveries is not kept (a call that does not end has no bound on it)
InvokeUnrecorded ==
    /\ Depth > 0
    /\ Top.st = "iter"
    /\ Top.todo # <<>>
    /\ Head(Top.todo) \in Callbacks
    /\ stack' = SetTop([Top EXCEPT !.st = "in", !.cur = Head(Top.todo),
                                   !.todo = Tail(@)])
    /\ UNCHANGED <<connections, handles, registered, streams, singleton, wire>>

\* the running callback invokes the cleanup handle of its own subscription
CallbackCleanup(h) ==
    /\ Depth > 0
    /\ Top.st = "in"
    /\ handles[h].cb = Top.cur
    /\ handles[h].calls = 0
    /\ Unsubscribe(h)

\* the running callback subscribes itself again under the same pair and keeps
\* the new handle where it kept the one it has invoked
CallbackResubscribe(h) ==
    LET hd == handles[h]
        added == ~(hd.key \in DOMAIN connections /\ hd.cb \in Range(connections[hd.key]))
    IN /\ Depth > 0
       /\ Top.st = "in"
       /\ hd.cb = Top.cur
       /\ hd.calls > 0
       /\ connections' = SubscribeMap(connections, hd.key, hd.cb)
       /\ handles' = [handles EXCEPT ![h].calls = 0]
       /\ registered' = registered \cup {<<hd.chan, hd.uid, hd.cb>>}
       /\ stack' = Touch(IF added THEN OnAdd(stack, hd.key, hd.cb) ELSE stack)
       /\ UNCHANGED <<streams, singleton, wire>>

\* ---------------------------------------------------------------- the exported instance
\* broadcastManager.subscribe(channel, userId, callback)
SingletonSubscribe(channel, userId, callback) ==
    /\ Depth = 0
    /\ TotalOf(singleton, DOMAIN singleton) < MaxSubs
    /\ singleton' = SubscribeMap(singleton, getChannelKey(channel, userId), callback)
    /\ UNCHANGED <<connections, handles, registered, stack, streams, wire>>

\* broadcastManager.getConnectionCount(channel, userId)
SingletonCount(channel, userId) ==
    LET key == getChannelKey(channel, userId)
    IN IF key \in DOMAIN singleton THEN Len(singleton[key]) ELSE 0

\* broadcastManager.broadcast(channel, userId, event): the Set comes from the
\* exported instance's Map
SingletonBroadcast(channel, userId, event) ==
    LET key == getChannelKey(channel, userId)
        found == key \in DOMAIN singleton
    IN /\ Depth = 0
       /\ stack' = <<[NewFrame(channel, userId, event, FALSE, event) EXCEPT
                          !.start = IF found THEN singleton[key] ELSE <<>>,
                          !.todo = IF found THEN singleton[key] ELSE <<>>,
                          !.attached = found]>>
       /\ UNCHANGED <<connections, singleton, handles, registered, streams, wire>>

\* ---------------------------------------------------------------- SSE stream route
\* what the route handler finds in its context
Requests == [ fn : BOOLEAN, user : BOOLEAN, id : UserIds \cup {Undefined} ]

\* userId extraction of the route handler; "error" when the handler throws
ResolveUserId(req) ==
    IF req.fn THEN [ok |-> TRUE, id |-> req.id]
    ELSE IF ~req.user THEN [ok |-> FALSE, id |-> Undefined]
    ELSE IF req.id = Undefined THEN [ok |-> FALSE, id |-> Undefined]
    ELSE [ok |-> TRUE, id |-> req.id]

IdleStream == [phase |-> "idle", chan |-> <<>>, uid |-> Undefined, out |-> <<>>, h |-> 0]

ConnectedFrame(channel) == <<"connected", channel>>
DataFrame(event) == <<"data", event>>

\* JSON.stringify({type: event.type, ...}) inside the listener's try block
CanEncode(event) == event # NoEvent /\ event # "eCirc"

\* the listener closure of connection c, try/catch included: the frames after the call
\* variant: the listener without its try/catch
StreamListenerNoCatch(s, event) ==
    IF CanEncode(event) /\ s.phase = "open"
    THEN [ok |-> TRUE, threw |-> FALSE, out |-> Append(s.out, DataFrame(event))]
    ELSE [ok |-> FALSE, threw |-> TRUE, out |-> s.out]

\* variant: the listener writes the frame again after writing it
StreamListenerRetry(s, event) ==
    IF CanEncode(event) /\ s.phase = "open"
    THEN [ok |-> TRUE, threw |-> FALSE,
          out |-> Append(Append(s.out, DataFrame(event)), DataFrame(event))]
    ELSE [ok |-> FALSE, threw |-> FALSE, out |-> s.out]

\* ok: the frame was written; threw: an exception left the listener
StreamListener(s, event) ==
    IF CanEncode(event) /\ s.phase = "open"
    THEN [ok |-> TRUE, threw |-> FALSE, out |-> Append(s.out, DataFrame(event))]
    ELSE [ok |-> FALSE, threw |-> FALSE, out |-> s.out]

\* variant: start() registers the listener without writing the comment frame
ConnectNoComment(c, channel, req) ==
    LET r == ResolveUserId(req)
    IN /\ Depth = 0
       /\ streams[c].phase = "idle"
       /\ IF ~r.ok
          THEN /\ streams' = [streams EXCEPT ![c].phase = "error"]
               /\ UNCHANGED <<connections, handles, registered, stack, singleton, wire>>
          ELSE /\ DoSubscribe(channel, r.id, c)
               /\ UNCHANGED <<singleton, wire>>
               /\ streams' = [streams EXCEPT ![c] =
                      [phase |-> "open", chan |-> channel, uid |-> r.id,
                       out |-> <<>>, h |-> Len(handles) + 1]]

\* GET basePath/:channel, up to the Response: userId extraction, then start()
Connect(c, channel, req) ==
    LET r == ResolveUserId(req)
    IN /\ Depth = 0
       /\ streams[c].phase = "idle"
       /\ IF ~r.ok
          THEN /\ streams' = [streams EXCEPT ![c].phase = "error"]
               /\ UNCHANGED <<connections, handles, registered, stack, singleton, wire>>
          ELSE /\ DoSubscribe(channel, r.id, c)
               /\ UNCHANGED <<singleton, wire>>
               /\ streams' = [streams EXCEPT ![c] =
                      [phase |-> "open", chan |-> channel, uid |-> r.id,
                       out |-> <<ConnectedFrame(channel)>>, h |-> Len(handles) + 1]]

\* the consumer cancels the stream (client disconnect): cancel() runs
Cancel(c) ==
    /\ Depth = 0
    /\ streams[c].phase = "open"
    /\ streams' = [streams EXCEPT ![c].phase = "closed"]
    /\ IF streams[c].h # 0
       THEN DoCleanup(streams[c].h) /\ UNCHANGED <<singleton, wire>>
       ELSE UNCHANGED <<connections, handles, registered, stack, singleton, wire>>

\* the transport fails or the server stops: the controller is closed and no
\* callback of the handler runs (the state the listener's catch is written for)
ControllerClosed(c) ==
    /\ Depth = 0
    /\ streams[c].phase = "open"
    /\ streams' = [streams EXCEPT ![c].phase = "closed"]
    /\ UNCHANGED <<connections, handles, registered, stack, singleton, wire>>

\* forEach hands the next element of the Set to a connection's listener
InvokeStream ==
    /\ Depth > 0
    /\ Top.st = "iter"
    /\ Top.todo # <<>>
    /\ Head(Top.todo) \in Conns
    /\ LET c == Head(Top.todo)
           r == StreamListener(streams[c], Top.event)
       IN /\ streams' = [streams EXCEPT ![c].out = r.out]
          /\ stack' = SetTop([Top EXCEPT
                 !.todo = Tail(@),
                 !.invoked = Append(@, <<c, Top.event>>),
                 !.failed = IF r.ok THEN @ ELSE @ \cup {c},
                 !.st = IF r.threw THEN "raised" ELSE "iter"])
    /\ UNCHANGED <<connections, handles, registered, singleton, wire>>

\* ---------------------------------------------------------------- wire encoder
LF == "\n"
CR == "\r"
Quote == "\""
Backslash == "\\"

Alphabet == {"a", LF, CR, Quote, Backslash}

Strings(n) == UNION { [1..k -> Alphabet] : k \in 0..n }

\* JavaScript values of an event's fields
JUndefined == [k |-> "undefined", s |-> <<>>, n |-> 0]
JNull == [k |-> "null", s |-> <<>>, n |-> 0]
JStr(s) == [k |-> "string", s |-> s, n |-> 0]
JNum(n) == [k |-> "number", s |-> <<>>, n |-> n]
\* an object that refers to itself
JCircular == [k |-> "circular", s |-> <<>>, n |-> 0]

\* the events handed to the encoder: type, optional html, data of any kind
WireEvents ==
    [ type : Strings(1),
      html : {JUndefined} \cup { JStr(s) : s \in Strings(MaxLen) },
      data : {JUndefined, JNull, JNum(12), JCircular} \cup { JStr(s) : s \in Strings(MaxLen) } ]

\* variant: quotes and backslashes are escaped, line breaks are copied
RECURSIVE EscapeQuotesOnly(_)
EscapeQuotesOnly(s) ==
    IF s = <<>> THEN <<>>
    ELSE (CASE Head(s) = Quote -> <<Backslash, Quote>>
            [] Head(s) = Backslash -> <<Backslash, Backslash>>
            [] OTHER -> <<Head(s)>>) \o EscapeQuotesOnly(Tail(s))

\* the characters of a string inside a JSON string literal
RECURSIVE Escape(_)
Escape(s) ==
    IF s = <<>> THEN <<>>
    ELSE (CASE Head(s) = Quote -> <<Backslash, Quote>>
            [] Head(s) = Backslash -> <<Backslash, Backslash>>
            [] Head(s) = LF -> <<Backslash, "n">>
            [] Head(s) = CR -> <<Backslash, "r">>
            [] OTHER -> <<Head(s)>>) \o Escape(Tail(s))

QuoteJSON(s) == <<Quote>> \o Escape(s) \o <<Quote>>

\* JSON.stringify of a defined, serializable value
Serialize(v) ==
    CASE v.k = "string" -> QuoteJSON(v.s)
      [] v.k = "number" -> NumberToString(v.n)
      [] OTHER -> <<"n", "u", "l", "l">>

\* JSON.stringify({type: event.type, html: event.html, data: event.data}):
\* a property whose value is undefined is left out; a circular value throws
JSONstringify(event) ==
    IF event.data.k = "circular"
    THEN [threw |-> TRUE, text |-> <<>>]
    ELSE [threw |-> FALSE,
          text |-> <<"{", Quote, "t", "y", "p", "e", Quote, ":">> \o QuoteJSON(event.type)
                   \o (IF event.html.k = "undefined" THEN <<>>
                       ELSE <<",", Quote, "h", "t", "m", "l", Quote, ":">>
                            \o Serialize(event.html))
                   \o (IF event.data.k = "undefined" THEN <<>>
                       ELSE <<",", Quote, "d", "a", "t", "a", Quote, ":">>
                            \o Serialize(event.data))
                   \o <<"}">>]

IdleWire == [st |-> "idle", ev |-> [type |-> <<>>, html |-> JUndefined, data |-> JUndefined],
             out |-> <<>>]

\* the listener's body for one event and an open controller: stringify, then
\* enqueue `data: ${data}\n\n`; the catch block drops the event
EncodeAndWrite ==
    /\ wire.st = "input"
    /\ LET r == JSONstringify(wire.ev)
       IN wire' = IF r.threw
                  THEN [wire EXCEPT !.st = "dropped"]
                  ELSE [wire EXCEPT !.st = "written",
                                    !.out = <<"d", "a", "t", "a", ":", " ">> \o r.text
                                            \o <<LF, LF>>]
    /\ UNCHANGED <<connections, singleton, handles, registered, stack, streams>>

\* ---------------------------------------------------------------- specification
Init ==
    /\ connections = EmptyMap
    /\ singleton = EmptyMap
    /\ wire = IdleWire
    /\ handles = <<>>
    /\ registered = {}
    /\ stack = <<>>
    /\ streams = [c \in Conns |-> IdleStream]

\* the registry used by application code with plain callbacks; the callbacks
\* return or throw and do not call back into the manager
Next ==
    \/ Depth = 0 /\ \E p \in Pairs, cb \in Callbacks : Subscribe(p[1], p[2], cb)
    \/ Depth = 0 /\ \E h \in 1..Len(handles) : Unsubscribe(h)
    \/ Depth = 0 /\ \E p \in Pairs : ClearChannel(p[1], p[2])
    \/ Depth = 0 /\ ClearAll
    \/ \E p \in Pairs, e \in Events : Broadcast(p[1], p[2], e)
    \/ \E ch \in Channels, e \in Events : BroadcastToChannel(ch, e)
    \/ Invoke
    \/ Return
    \/ Throw
    \/ Finish

Spec == Init /\ [][Next]_vars

\* the pairs used by callbacks that call back into the manager
ReentrantPairs == { <<<<"a">>, Num(1)>>, <<<<"a", ":", "b">>, Num(1)>> }

\* the registry with callbacks that subscribe, clean up and clear while they run
NextReentrant ==
    \/ \E p \in ReentrantPairs, cb \in Callbacks : Subscribe(p[1], p[2], cb)
    \/ \E h \in 1..Len(handles) : Unsubscribe(h)
    \/ \E p \in ReentrantPairs : ClearChannel(p[1], p[2])
    \/ ClearAll
    \/ \E p \in ReentrantPairs : Broadcast(p[1], p[2], "e1")
    \/ Invoke
    \/ Return
    \/ Throw
    \/ Finish

SpecReentrant == Init /\ [][NextReentrant]_vars

\* the pair that callbacks publish to from inside a broadcast to it
NestedPair == <<<<"a">>, Num(1)>>

\* the registry with callbacks that publish to the key they are subscribed to
NextNested ==
    \/ Depth = 0 /\ \E cb \in Callbacks : Subscribe(NestedPair[1], NestedPair[2], cb)
    \/ Depth = 0 /\ \E h \in 1..Len(handles) : Unsubscribe(h)
    \/ \E e \in Events : Broadcast(NestedPair[1], NestedPair[2], e)
    \/ \E e \in Events : NestedBroadcast(NestedPair[1], NestedPair[2], e)
    \/ Invoke
    \/ Return
    \/ Throw
    \/ Depth = 1 /\ Finish
    \/ NestedFinish

SpecNested == Init /\ [][NextNested]_vars

\* handlers register through store.broadcast; code outside the request
\* context uses the exported broadcastManager
AccessorPairs == { <<<<"a">>, Num(1)>>, <<<<"a", ":", "b">>, Num(1)>> }

NextAccessors ==
    \/ Depth = 0 /\ \E p \in AccessorPairs, cb \in Callbacks : Subscribe(p[1], p[2], cb)
    \/ Depth = 0 /\ \E h \in 1..Len(handles) : Unsubscribe(h)
    \/ \E p \in AccessorPairs, cb \in Callbacks : SingletonSubscribe(p[1], p[2], cb)
    \/ \E p \in AccessorPairs, e \in Events : SingletonBroadcast(p[1], p[2], e)
    \/ Invoke
    \/ Return
    \/ Finish

SpecAccessors == Init /\ [][NextAccessors]_vars

\* the encoder applied to one event, for every event of WireEvents
InitEncoder ==
    /\ connections = EmptyMap
    /\ singleton = EmptyMap
    /\ handles = <<>>
    /\ registered = {}
    /\ stack = <<>>
    /\ streams = [c \in Conns |-> IdleStream]
    /\ wire \in { [st |-> "input", ev |-> ev, out |-> <<>>] : ev \in WireEvents }

NextEncoder == EncodeAndWrite

SpecEncoder == InitEncoder /\ [][NextEncoder]_vars

\* the registry with callbacks that clean up and subscribe themselves again
\* while they run
NextLoop ==
    \/ Depth = 0 /\ \E p \in ReentrantPairs, cb \in Callbacks : Subscribe(p[1], p[2], cb)
    \/ \E p \in ReentrantPairs : Broadcast(p[1], p[2], "e1")
    \/ InvokeUnrecorded
    \/ \E h \in 1..Len(handles) : CallbackCleanup(h)
    \/ \E h \in 1..Len(handles) : CallbackResubscribe(h)
    \/ Return
    \/ Finish

\* forEach goes on to the next element, every callback invocation returns,
\* and broadcast returns when forEach is done
SpecLoop ==
    /\ Init /\ [][NextLoop]_vars
    /\ WF_vars(InvokeUnrecorded) /\ WF_vars(Return) /\ WF_vars(Finish)

\* subscribe, cleanup handles and the clears, with the history of which handles
\* had their callback cleared
NextClear ==
    \/ \E p \in Pairs, cb \in Callbacks : Subscribe(p[1], p[2], cb)
    \/ \E h \in 1..Len(handles) : Unsubscribe(h)
    \/ \E p \in Pairs : ClearChannelTracked(p[1], p[2])
    \/ ClearAllTracked

SpecClear == Init /\ [][NextClear]_vars

\* the SSE route: connections come and go while handlers broadcast
NextStream ==
    \/ \E c \in Conns, ch \in Channels, req \in Requests : Connect(c, ch, req)
    \/ \E c \in Conns : Cancel(c)
    \/ \E c \in Conns : ControllerClosed(c)
    \/ \E p \in Pairs, e \in StreamEvents : Broadcast(p[1], p[2], e)
    \/ InvokeStream
    \/ Finish

SpecStream == Init /\ [][NextStream]_vars

\* ---------------------------------------------------------------- properties
Frames == { stack[i] : i \in DOMAIN stack }

\* the forEach of the frame ran to its end / an exception left broadcast
Completed(f) == f.st = "iter" /\ f.todo = <<>>
Raised(f) == f.st = "raised"
Ended(f) == Completed(f) \/ Raised(f)

InvokedListeners(f) == { f.invoked[i][1] : i \in DOMAIN f.invoked }

\* every listener of S was invoked exactly once, with the event of the call, and no other
InvokedOnceEach(f, S) ==
    /\ InvokedListeners(f) = S
    /\ Len(f.invoked) = Cardinality(S)
    /\ \A i \in DOMAIN f.invoked : f.invoked[i][2] = f.arg

RegisteredUnder(p) == { r[3] : r \in { q \in registered : q[1] = p[1] /\ q[2] = p[2] } }

KeyListeners(key) == IF key \in DOMAIN connections THEN Range(connections[key]) ELSE {}

\* C1: a broadcast to (channel, userId) during which no callback touches the
\* registry invokes exactly the listeners registered under that pair, each once
\* with the event, and no listener registered only under another pair.
C1_PublishReachesExactlyThePair ==
    \A f \in Frames :
        (~f.wide /\ f.pure /\ Ended(f)) => InvokedOnceEach(f, f.expect)

\* C2: the channel-wide publish, broadcast(channel, event), invokes every
\* listener registered under any pair of that channel, each once, and no other.
C2_ChannelWidePublishReachesTheChannel ==
    \A f \in Frames :
        (f.wide /\ f.pure /\ Ended(f)) =>
            /\ InvokedListeners(f) = f.expect
            /\ Len(f.invoked) = Cardinality(f.expect)

\* C3: for every pair, getConnectionCount is the number of listeners registered
\* under that pair and not yet removed.
C3_CountIsRegisteredListeners ==
    \A p \in Pairs : getConnectionCount(p[1], p[2]) = Cardinality(RegisteredUnder(p))

\* C4 (as stated): invoking a handle that was already invoked leaves the registry
\* as it is, whatever happened in between.
C4_SecondCleanupChangesNothing ==
    [][\A h \in 1..Len(handles) :
          (handles[h].calls > 0 /\ Unsubscribe(h)) => connections' = connections]_vars

\* C4 (amended): invoking a handle that was already invoked leaves the registry as
\* it is unless the handle's callback is in the Set of the handle's key at that
\* moment; then it removes that callback from that Set and nothing else.
C4_SecondCleanupOnlyRemovesOwnCallback ==
    [][\A h \in 1..Len(handles) :
          (handles[h].calls > 0 /\ Unsubscribe(h)) =>
              IF handles[h].cb \in KeyListeners(handles[h].key)
              THEN /\ \A k \in (DOMAIN connections) \ {handles[h].key} :
                         k \in DOMAIN connections' /\ connections'[k] = connections[k]
                   /\ KeyListeners(handles[h].key)'
                         = KeyListeners(handles[h].key) \ {handles[h].cb}
              ELSE connections' = connections]_vars

\* a handle was invoked twice while other listeners sit under its key
C4_Witness ==
    \E h \in 1..Len(handles) :
        /\ handles[h].calls = 2
        /\ KeyListeners(handles[h].key) # {}
        /\ handles[h].cb \notin KeyListeners(handles[h].key)

\* C5: invoking the handle of subscribe(channel, userId, L) changes the count of
\* no other (channel, userId) pair.
C5_CleanupLeavesOtherPairs ==
    [][\A h \in 1..Len(handles) :
          Unsubscribe(h) =>
              \A p \in Pairs :
                  p # <<handles[h].chan, handles[h].uid>> =>
                      getConnectionCount(p[1], p[2])' = getConnectionCount(p[1], p[2])]_vars

\* C6: an exception of one listener does not leave broadcast, and the listeners
\* after it in the Set are still invoked in that call.
C6_ListenerExceptionIsCaught ==
    \A f \in Frames :
        /\ ~Raised(f)
        /\ (f.pure /\ Ended(f)) => InvokedListeners(f) = Range(f.start)

\* C7: a connection that is closed has had its cleanup invoked, and its listener
\* is no longer in the registry.
C7_ClosedConnectionIsUnregistered ==
    \A c \in Conns :
        streams[c].phase = "closed" =>
            /\ handles[streams[c].h].calls = 1
            /\ c \notin KeyListeners(getChannelKey(streams[c].chan, streams[c].uid))

\* C8: a failed write of one connection's listener neither leaves broadcast nor
\* keeps the event from the other connections' listeners under the key: when the
\* forEach is over every listener of the Set was invoked, and every connection
\* whose write did not fail has the event as its last frame.
C8_WriteFailureIsIsolated ==
    \A f \in Frames :
        /\ ~Raised(f)
        /\ Completed(f) =>
              \A c \in Range(f.start) :
                  /\ <<c, f.event>> \in Range(f.invoked)
                  /\ c \notin f.failed =>
                        streams[c].out[Len(streams[c].out)] = DataFrame(f.event)

\* a broadcast is over in which the first listener's write failed on a closed
\* controller and a later listener's connection received the event
C8_Witness ==
    \E f \in Frames :
        /\ Completed(f)
        /\ Len(f.start) = 2
        /\ f.start[1] \in f.failed
        /\ streams[f.start[1]].phase = "closed"
        /\ f.start[2] \notin f.failed
        /\ streams[f.start[2]].out[Len(streams[f.start[2]].out)] = DataFrame(f.event)

\* C9: registering under, or clearing, one pair never changes the count of a
\* different pair.
C9_KeysAreCollisionFree ==
    [][\A p \in Pairs :
          ((\E cb \in Callbacks : Subscribe(p[1], p[2], cb)) \/ ClearChannel(p[1], p[2])) =>
              \A q \in Pairs \ {p} :
                  getConnectionCount(q[1], q[2])' = getConnectionCount(q[1], q[2])]_vars

\* C10: an entry is in the registry exactly when its Set has a listener: no entry
\* with an empty Set exists, and a key is listed by getActiveChannels exactly
\* when getConnectionCount of a pair with that key is at least 1.
C10_NoEmptyEntries ==
    /\ \A k \in DOMAIN connections : Len(connections[k]) >= 1
    /\ \A p \in Pairs :
          (getChannelKey(p[1], p[2]) \in getActiveChannels)
              <=> getConnectionCount(p[1], p[2]) >= 1

\* the last listener of a key was removed by its handle, and the key is gone
\* while another key is still listed
C10_Witness ==
    \E h \in 1..Len(handles) :
        /\ handles[h].calls = 1
        /\ handles[h].key \notin getActiveChannels
        /\ getActiveChannels # {}

\* C11: clearChannel(c, s) leaves getConnectionCount(c, s) at 0 and a later
\* broadcast to (c, s) with nothing to invoke, leaves the listeners and the count
\* of every other pair as they were, and lowers getTotalConnections by exactly
\* the former count of (c, s).
C11_ClearChannelRemovesExactlyThePair ==
    [][\A p \in Pairs :
          ClearChannel(p[1], p[2]) =>
              /\ getConnectionCount(p[1], p[2])' = 0
              /\ \A e \in Events : NewFrame(p[1], p[2], e, FALSE, e)'.todo = <<>>
              /\ \A q \in Pairs \ {p} :
                    /\ getConnectionCount(q[1], q[2])' = getConnectionCount(q[1], q[2])
                    /\ KeyListeners(getChannelKey(q[1], q[2]))'
                          = KeyListeners(getChannelKey(q[1], q[2]))
              /\ getTotalConnections' = getTotalConnections - getConnectionCount(p[1], p[2])
      ]_vars

\* C12: clearAll, from any state of the registry, leaves getTotalConnections at
\* 0, getActiveChannels empty and getConnectionCount at 0 for every pair, and
\* a broadcast to any pair then finds no listener to invoke; a broadcast that
\* found no listener invokes none.
C12_ClearAllEmptiesTheRegistry ==
    /\ [][ClearAll =>
             /\ getTotalConnections' = 0
             /\ getActiveChannels' = {}
             /\ \A p \in Pairs :
                   /\ getConnectionCount(p[1], p[2])' = 0
                   /\ \A e \in Events : NewFrame(p[1], p[2], e, FALSE, e)'.todo = <<>>
        ]_vars
    /\ [](\A f \in Frames : f.start = <<>> => f.invoked = <<>>)

\* clearAll emptied a registry of two keys (no handle was invoked), and a
\* broadcast to one of them has returned without invoking a listener
C12_Witness ==
    /\ Len(handles) = 2
    /\ handles[1].key # handles[2].key
    /\ handles[1].calls = 0 /\ handles[2].calls = 0
    /\ connections = EmptyMap
    /\ \E f \in Frames :
          ~f.wide /\ f.key = handles[1].key /\ Completed(f) /\ f.invoked = <<>>

\* the (channel, userId) readings of a listed key: the text before one of its
\* colons and the text after it
KeySplits(k) ==
    { <<SubSeq(k, 1, i - 1), Str(SubSeq(k, i + 1, Len(k)))>> :
        i \in { j \in 1..Len(k) : k[j] = ":" } }

\* the sum of getConnectionCount over the keys ks, each read at its first colon
RECURSIVE SumOfCounts(_)
SumOfCounts(ks) ==
    IF ks = {} THEN 0
    ELSE LET k == CHOOSE x \in ks : TRUE
             first == CHOOSE i \in 1..Len(k) :
                         k[i] = ":" /\ \A j \in 1..(i - 1) : k[j] # ":"
             p == <<SubSeq(k, 1, first - 1), Str(SubSeq(k, first + 1, Len(k)))>>
         IN getConnectionCount(p[1], p[2]) + SumOfCounts(ks \ {k})

\* C13: in every state getTotalConnections is the sum of getConnectionCount
\* over the keys getActiveChannels lists (whichever colon a key is read at),
\* and it is 0 for a registry without entries, as a new one is.
C13_TotalIsSumOverActiveKeys ==
    /\ getTotalConnections = SumOfCounts(getActiveChannels)
    /\ \A k \in getActiveChannels : \A p \in KeySplits(k) :
          getConnectionCount(p[1], p[2]) = Len(connections[k])
    /\ (connections = EmptyMap => getTotalConnections = 0)

\* one key is listed and holds two listeners
C13_Witness ==
    /\ Cardinality(getActiveChannels) = 1
    /\ getTotalConnections = 2
    /\ \E k \in getActiveChannels : Cardinality(KeySplits(k)) = 2

\* C14: for a pair whose key has no listeners, getConnectionCount is 0, and a
\* broadcast to it invokes no listener, raises nothing and leaves the registry
\* as it was, without an entry for the key.
C14_EmptyKeyIsNoError ==
    /\ [](\A p \in Pairs :
            KeyListeners(getChannelKey(p[1], p[2])) = {} =>
                getConnectionCount(p[1], p[2]) = 0)
    /\ [](\A f \in Frames :
            (~f.wide /\ f.start = <<>>) => (f.invoked = <<>> /\ ~Raised(f)))
    /\ [][(Depth' = Depth + 1 /\ ~Top'.wide /\ KeyListeners(Top'.key) = {}) =>
                /\ connections' = connections
                /\ Top'.key \notin getActiveChannels'
                /\ registered' = registered
       ]_vars

\* a broadcast to a pair without listeners has returned; the registry holds
\* the entry of another key, and none for the key of the call
C14_Witness ==
    /\ connections # EmptyMap
    /\ \E f \in Frames :
          /\ ~f.wide /\ f.start = <<>> /\ Completed(f)
          /\ f.key \notin getActiveChannels
          /\ getConnectionCount(f.chan, f.uid) = 0

\* C15: forEach never starts an invocation of a listener whose cleanup handle
\* for the key of the call has returned (and which has not been subscribed
\* there again since), neither in a later broadcast nor in the one during
\* which the handle was invoked; and no listener is invoked twice in one call.
C15_NoDeliveryAfterCleanup ==
    [][Invoke =>
          LET x == Head(Top.todo)
          IN /\ ~ /\ \E h \in DOMAIN handles :
                        /\ handles[h].key = Top.key
                        /\ handles[h].cb = x
                        /\ handles[h].calls > 0
                   /\ x \notin KeyListeners(Top.key)
             /\ x \notin InvokedListeners(Top)
      ]_vars

\* C16: every listener of a key sees the events published to that key in the
\* order of the broadcast calls: within a call, no listener receives the call's
\* own event after it has received the event of a broadcast to the same key
\* made later, from inside a callback of that call.
C16_EventsSeenInCallOrder ==
    \A f \in Frames :
        \A i, j \in DOMAIN f.invoked :
            (/\ i < j
             /\ Len(f.invoked[i]) = 3
             /\ f.invoked[i][3] = f.key
             /\ Len(f.invoked[j]) = 2)
            => f.invoked[i][1] # f.invoked[j][1]

\* handle h stands for a registration still in force, the only one of its
\* callback under its key
LiveOnce(h) ==
    /\ handles[h].calls = 0
    /\ handles[h].cb \in KeyListeners(handles[h].key)
    /\ \A h2 \in DOMAIN handles :
          (handles[h2].key = handles[h].key /\ handles[h2].cb = handles[h].cb) => h2 = h

PositionIn(f, x) == CHOOSE i \in DOMAIN f.invoked : f.invoked[i][1] = x

\* C17: a broadcast invokes the listeners of its key in registration order and
\* within the call: of two listeners subscribed under the key, the one subscribed
\* later is invoked only after the one subscribed earlier, and when the call
\* returns both have been invoked.
C17_InvokedInRegistrationOrder ==
    \A f \in Frames : \A i, j \in DOMAIN handles :
        (/\ ~f.wide
         /\ i < j
         /\ LiveOnce(i) /\ LiveOnce(j)
         /\ handles[i].key = f.key /\ handles[j].key = f.key
         /\ handles[i].cb # handles[j].cb)
        => /\ handles[j].cb \in InvokedListeners(f) =>
                /\ handles[i].cb \in InvokedListeners(f)
                /\ PositionIn(f, handles[i].cb) < PositionIn(f, handles[j].cb)
           /\ Completed(f) =>
                {handles[i].cb, handles[j].cb} \subseteq InvokedListeners(f)

\* a broadcast has returned after invoking the two listeners of its key, the
\* one subscribed first before the other
C17_Witness ==
    /\ Len(handles) = 2
    /\ LiveOnce(1) /\ LiveOnce(2)
    /\ handles[1].key = handles[2].key
    /\ \E f \in Frames :
          /\ ~f.wide /\ f.key = handles[1].key /\ Completed(f)
          /\ f.invoked = <<<<handles[1].cb, f.event>>, <<handles[2].cb, f.event>>>>

\* the same callback was subscribed twice under one pair and is still registered
TwiceRegistered(i, j) ==
    /\ i # j
    /\ handles[i].chan = handles[j].chan /\ handles[i].uid = handles[j].uid
    /\ handles[i].cb = handles[j].cb
    /\ handles[i].calls = 0 /\ handles[j].calls = 0
    /\ handles[i].cb \in KeyListeners(handles[i].key)

Occurrences(s, x) == Cardinality({ n \in DOMAIN s : s[n] = x })

\* C18: when the same callback is subscribed twice under the same pair,
\* getConnectionCount counts it once, getTotalConnections is still the sum of
\* the sizes of the listed keys, and a broadcast to the pair that returns has
\* invoked it exactly once.
C18_DoubleRegistrationCountsOnce ==
    \A i, j \in DOMAIN handles :
        TwiceRegistered(i, j) =>
            LET key == handles[i].key
                cb == handles[i].cb
            IN /\ Occurrences(connections[key], cb) = 1
               /\ getConnectionCount(handles[i].chan, handles[i].uid)
                     = Cardinality(KeyListeners(key))
               /\ getTotalConnections = SumOfCounts(getActiveChannels)
               /\ \A f \in Frames :
                     (~f.wide /\ f.key = key /\ Completed(f)) =>
                         Cardinality({ n \in DOMAIN f.invoked : f.invoked[n][1] = cb }) = 1

\* f was subscribed twice under one pair; the pair counts 1 and a broadcast
\* to it has returned after one invocation
C18_Witness ==
    /\ Len(handles) = 2
    /\ TwiceRegistered(1, 2)
    /\ getConnectionCount(handles[1].chan, handles[1].uid) = 1
    /\ getTotalConnections = 1
    /\ \E f \in Frames :
          /\ ~f.wide /\ f.key = handles[1].key /\ Completed(f)
          /\ f.invoked = <<<<handles[1].cb, f.event>>>>

\* the request carries no subscriber identity the handler could resolve
NoIdentity(req) ==
    IF req.fn THEN req.id = Undefined
    ELSE ~req.user \/ req.id = Undefined

\* C19: when no identity can be resolved for a connection (getUserId yields
\* none, or the store's user or its id field is missing) the handler throws
\* before streaming: no stream is opened, no connected frame is written and
\* no listener is registered.
C19_NoIdentityIsAnErrorBeforeStreaming ==
    [][\A c \in Conns, ch \in Channels, req \in Requests :
          (Connect(c, ch, req) /\ NoIdentity(req)) =>
              /\ streams'[c].phase = "error"
              /\ streams'[c].out = <<>>
              /\ connections' = connections
              /\ handles' = handles
      ]_vars

\* C20: store.broadcast and the exported broadcastManager are one instance:
\* counts read through either agree in every state, and a broadcast made
\* through broadcastManager that returns has invoked the listeners registered
\* through store.broadcast under its pair.
C20_AccessorsShareOneInstance ==
    /\ \A p \in AccessorPairs :
          getConnectionCount(p[1], p[2]) = SingletonCount(p[1], p[2])
    /\ \A f \in Frames : Completed(f) => f.expect \subseteq InvokedListeners(f)

\* C21: the frames of a connection change only when its stream is opened, or
\* when a broadcast in progress hands its event to the connection's listener:
\* then exactly one frame of that event is appended, the connection is open and
\* registered, and the call has not invoked the listener before (so an event is
\* written at most once, a failed write is not repeated, and nothing published
\* before the registration or after the cleanup is written).
C21_AtMostOnceWhileConnected ==
    [][\A c \in Conns :
          streams'[c].out # streams[c].out =>
              \/ /\ streams[c].phase = "idle"
                 /\ streams[c].out = <<>>
                 /\ streams'[c].out = <<ConnectedFrame(streams'[c].chan)>>
              \/ /\ Depth > 0
                 /\ Top.st = "iter" /\ Top.todo # <<>> /\ Head(Top.todo) = c
                 /\ streams'[c].out = Append(streams[c].out, DataFrame(Top.event))
                 /\ c \notin InvokedListeners(Top)
                 /\ streams[c].phase = "open"
                 /\ <<streams[c].chan, streams[c].uid, c>> \in registered
      ]_vars

\* one broadcast is over: the write to a closed connection failed and left its
\* frames as they were, the open connection received the event once; the closed
\* connection is still registered
C21_Witness ==
    \E f \in Frames : \E c, d \in Conns :
        /\ Completed(f)
        /\ c \in f.failed /\ streams[c].phase = "closed"
        /\ streams[c].out = <<ConnectedFrame(streams[c].chan)>>
        /\ d \notin f.failed
        /\ streams[d].out = <<ConnectedFrame(streams[d].chan), DataFrame(f.event)>>
        /\ Len(f.invoked) = 2

\* C22: on every connection the first frame is the ': connected to <channel>'
\* comment, present from the moment the listener is registered, and every
\* frame after it is an event frame; a connection whose handler threw has no frame.
C22_ConnectedFrameComesFirst ==
    \A c \in Conns :
        /\ streams[c].phase \in {"idle", "error"} => streams[c].out = <<>>
        /\ streams[c].phase \in {"open", "closed"} =>
              /\ Len(streams[c].out) >= 1
              /\ streams[c].out[1] = <<"connected", streams[c].chan>>
              /\ \A i \in 2..Len(streams[c].out) : streams[c].out[i][1] = "data"
        /\ (\E k \in DOMAIN connections : c \in Range(connections[k])) =>
              (streams[c].out # <<>> /\ streams[c].out[1][1] = "connected")

\* a connection has received an event after its comment frame
C22_Witness ==
    \E c \in Conns, e \in Events :
        /\ streams[c].phase = "open"
        /\ streams[c].out = <<ConnectedFrame(streams[c].chan), DataFrame(e)>>

\* a client's reading of a frame: JSON text back to values
StartsAt(cs, i, lit) ==
    /\ i + Len(lit) - 1 <= Len(cs)
    /\ SubSeq(cs, i, i + Len(lit) - 1) = lit

RECURSIVE ReadString(_, _, _)
ReadString(cs, i, acc) ==
    IF i > Len(cs) THEN [ok |-> FALSE, val |-> JStr(acc), next |-> i]
    ELSE IF cs[i] = Quote THEN [ok |-> TRUE, val |-> JStr(acc), next |-> i + 1]
    ELSE IF cs[i] = Backslash
         THEN IF i + 1 > Len(cs) THEN [ok |-> FALSE, val |-> JStr(acc), next |-> i]
              ELSE ReadString(cs, i + 2,
                       Append(acc, CASE cs[i + 1] = "n" -> LF
                                     [] cs[i + 1] = "r" -> CR
                                     [] OTHER -> cs[i + 1]))
    ELSE ReadString(cs, i + 1, Append(acc, cs[i]))

IsDigit(c) == \E d \in 1..10 : Digit[d] = c

RECURSIVE ReadNumber(_, _, _)
ReadNumber(cs, i, acc) ==
    IF i <= Len(cs) /\ IsDigit(cs[i])
    THEN ReadNumber(cs, i + 1, 10 * acc + ((CHOOSE d \in 1..10 : Digit[d] = cs[i]) - 1))
    ELSE [ok |-> TRUE, val |-> JNum(acc), next |-> i]

ReadValue(cs, i) ==
    IF i > Len(cs) THEN [ok |-> FALSE, val |-> JUndefined, next |-> i]
    ELSE IF cs[i] = Quote THEN ReadString(cs, i + 1, <<>>)
    ELSE IF StartsAt(cs, i, <<"n", "u", "l", "l">>)
         THEN [ok |-> TRUE, val |-> JNull, next |-> i + 4]
    ELSE IF IsDigit(cs[i]) THEN ReadNumber(cs, i, 0)
    ELSE [ok |-> FALSE, val |-> JUndefined, next |-> i]

\* an optional property named by lit at position i
ReadOptional(cs, i, lit) ==
    IF StartsAt(cs, i, lit) THEN ReadValue(cs, i + Len(lit))
    ELSE [ok |-> TRUE, val |-> JUndefined, next |-> i]

\* the frame read as 'data: ' + {"type":..,"html":..,"data":..} + blank line
ParseFrame(cs) ==
    LET pre == <<"d", "a", "t", "a", ":", " ", "{", Quote, "t", "y", "p", "e", Quote, ":">>
        ty == ReadValue(cs, Len(pre) + 1)
        ht == ReadOptional(cs, ty.next, <<",", Quote, "h", "t", "m", "l", Quote, ":">>)
        da == ReadOptional(cs, ht.next, <<",", Quote, "d", "a", "t", "a", Quote, ":">>)
    IN IF /\ StartsAt(cs, 1, pre)
          /\ ty.ok /\ ty.val.k = "string"
          /\ ht.ok /\ da.ok
          /\ StartsAt(cs, da.next, <<"}", LF, LF>>)
          /\ da.next + 2 = Len(cs)
       THEN [ok |-> TRUE, type |-> ty.val.s, html |-> ht.val, data |-> da.val]
       ELSE [ok |-> FALSE, type |-> <<>>, html |-> JUndefined, data |-> JUndefined]

\* the only line breaks of the text are the two that end it
OneFrame(cs) ==
    /\ Len(cs) >= 2
    /\ cs[Len(cs)] = LF /\ cs[Len(cs) - 1] = LF
    /\ \A n \in 1..(Len(cs) - 2) : cs[n] # LF /\ cs[n] # CR

\* C23 as stated: the encoder turns every event into exactly one frame
\* 'data: <json>' plus blank line, with no other raw line break, whose json
\* carries the event's type, html and data.
C23_EveryEventIsOneFrame ==
    wire.st \in {"written", "dropped"} =>
        /\ wire.st = "written"
        /\ OneFrame(wire.out)
        /\ ParseFrame(wire.out) = [ok |-> TRUE, type |-> wire.ev.type,
                                   html |-> wire.ev.html, data |-> wire.ev.data]

\* C23, amended: every event JSON.stringify accepts becomes exactly one frame
\* 'data: <json>' plus blank line with no other raw line break, also when html
\* or data contain line breaks, and the json reads back as the event's type,
\* html and data (a field that is undefined is left out); an event JSON.stringify
\* rejects (circular data) becomes no frame at all.
C23_SerializableEventIsOneFrame ==
    /\ wire.st = "written" =>
          /\ wire.ev.data # JCircular
          /\ OneFrame(wire.out)
          /\ ParseFrame(wire.out) = [ok |-> TRUE, type |-> wire.ev.type,
                                     html |-> wire.ev.html, data |-> wire.ev.data]
    /\ wire.st = "dropped" => (wire.ev.data = JCircular /\ wire.out = <<>>)

\* an event with a line break in its html and in its data was written as one frame
C23_Witness ==
    /\ wire.st = "written"
    /\ wire.ev.html = JStr(<<"a", LF>>)
    /\ wire.ev.data = JStr(<<LF, CR>>)
    /\ OneFrame(wire.out)

\* C24: broadcast never adds or removes registry entries: while a call whose
\* listeners make no registry calls is entered, invokes, sees a listener return
\* or throw, and is left, the Map stays as it is; and a listener leaves the
\* Set of a key only in a step that is the cleanup handle of that listener for
\* that key, clearChannel for that key, or clearAll.
C24_PublishLeavesRegistryAlone ==
    /\ [][(Depth > 0 \/ Depth' > 0) => connections' = connections]_vars
    /\ [][\A k \in DOMAIN connections : \A x \in Range(connections[k]) :
            x \notin KeyListeners(k)' =>
                \/ \E h \in DOMAIN handles :
                      /\ handles[h].key = k /\ handles[h].cb = x
                      /\ Unsubscribe(h)
                \/ \E p \in Pairs :
                      getChannelKey(p[1], p[2]) = k /\ ClearChannel(p[1], p[2])
                \/ ClearAll
       ]_vars

\* an exception of the first of two listeners has left a broadcast; both are
\* still in the Set of the key
C24_Witness ==
    \E f \in Frames :
        /\ ~f.wide /\ Raised(f)
        /\ Len(f.start) = 2 /\ Len(f.invoked) = 1
        /\ f.key \in DOMAIN connections
        /\ connections[f.key] = f.start

\* C25: when a broadcast to (channel, userId) is over, every open connection
\* registered under that pair has received exactly one frame, of that event,
\* during the call, and no connection registered under another pair has
\* received one: the event frames of a connection are the publishes to its pair.
C25_FramesAreThePublishesToThePair ==
    \A f \in Frames :
        (~f.wide /\ Completed(f)) =>
            \A c \in Conns :
                LET mine == /\ streams[c].phase = "open"
                            /\ streams[c].chan = f.chan
                            /\ streams[c].uid = f.uid
                    written == /\ Cardinality({ n \in DOMAIN f.invoked : f.invoked[n][1] = c }) = 1
                               /\ c \notin f.failed
                               /\ streams[c].out[Len(streams[c].out)] = DataFrame(f.event)
                IN /\ mine => written
                   /\ (c \in InvokedListeners(f) /\ c \notin f.failed) => mine

\* C26: a broadcast iterates over the listeners its key had when the call
\* started: forEach never starts an invocation of a listener that was not in
\* the Set at entry (one subscribed by a callback of the same call).
C26_PublishIteratesASnapshot ==
    [][Invoke => Head(Top.todo) \in Range(Top.start)]_vars

\* C27: every broadcast call ends, given that every callback invocation ends,
\* also when callbacks subscribe listeners, or clean up and subscribe
\* themselves again, under the key of the call.
C27_PublishTerminates == (Depth > 0) ~> (Depth = 0)

\* C28 (as stated): invoking a handle whose callback clearChannel or clearAll
\* has removed leaves the registry as it is: no key is created, and every
\* listener registered since the clear stays, with every count unchanged.
C28_HandleAfterClearChangesNothing ==
    [][\A h \in 1..Len(handles) :
          (handles[h].cleared /\ Unsubscribe(h)) =>
              /\ connections' = connections
              /\ \A p \in Pairs :
                    getConnectionCount(p[1], p[2])' = getConnectionCount(p[1], p[2])
      ]_vars

\* C28 (amended): invoking a handle whose callback clearChannel or clearAll has
\* removed creates no key, leaves every other key as it is and every other
\* listener of its key in place; it changes nothing at all unless the same
\* callback is again in the Set of the handle's key, and then removes it.
C28_HandleAfterClearOnlyRemovesOwnCallback ==
    [][\A h \in 1..Len(handles) :
          (handles[h].cleared /\ Unsubscribe(h)) =>
              /\ DOMAIN connections' \subseteq DOMAIN connections
              /\ \A k \in (DOMAIN connections) \ {handles[h].key} :
                    k \in DOMAIN connections' /\ connections'[k] = connections[k]
              /\ KeyListeners(handles[h].key)'
                    = KeyListeners(handles[h].key) \ {handles[h].cb}
              /\ handles[h].cb \notin KeyListeners(handles[h].key) =>
                    connections' = connections
      ]_vars

\* the handle of a cleared callback was invoked for the first time, after
\* another listener had been subscribed under the same key; that listener is
\* still there
C28_Witness ==
    \E h \in 1..Len(handles) :
        /\ handles[h].cleared /\ handles[h].calls = 1
        /\ KeyListeners(handles[h].key) # {}
        /\ handles[h].cb \notin KeyListeners(handles[h].key)

\* C29: the event frames of a connection depend only on the publishes to its
\* own (channel, userId) pair: a step that writes an event frame to an open
\* connection belongs to a broadcast to that pair, so that runs which differ
\* only in publishes to other pairs write the same frames to it.
C29_FramesDependOnOwnPairOnly ==
    [][\A c \in Conns :
          (streams[c].phase = "open" /\ streams'[c].out # streams[c].out) =>
              /\ Depth > 0
              /\ Top.chan = streams[c].chan
              /\ Top.uid = streams[c].uid
      ]_vars

\* handle i was invoked and removed the callback that handle j, not invoked,
\* was returned for as well (same pair, same callback)
OtherHandleLeft(i, j) ==
    /\ i # j
    /\ handles[i].chan = handles[j].chan /\ handles[i].uid = handles[j].uid
    /\ handles[i].cb = handles[j].cb
    /\ handles[i].calls = 1 /\ handles[j].calls = 0
    /\ handles[i].cb \notin KeyListeners(handles[i].key)

\* C30: when one callback was subscribed twice under one pair, invoking either
\* handle removes it completely: the count of the pair drops by one, a later
\* broadcast to the pair does not find it, while the other handle has not been
\* invoked; and invoking that other handle afterwards changes nothing.
C30_EitherHandleRemovesTheListener ==
    [][\A i, j \in 1..Len(handles) :
          /\ (TwiceRegistered(i, j) /\ Unsubscribe(i)) =>
                /\ handles[i].cb \notin KeyListeners(handles[i].key)'
                /\ getConnectionCount(handles[i].chan, handles[i].uid)'
                      = getConnectionCount(handles[i].chan, handles[i].uid) - 1
                /\ \A e \in Events :
                      handles[i].cb \notin
                          Range(NewFrame(handles[i].chan, handles[i].uid, e, FALSE, e)'.todo)
                /\ handles'[j].calls = 0
          /\ (OtherHandleLeft(i, j) /\ Unsubscribe(j)) => connections' = connections
      ]_vars

\* both handles of a callback subscribed twice under one pair have been
\* invoked, one after the other, and the callback is gone
C30_Witness ==
    /\ Len(handles) >= 2
    /\ handles[1].chan = handles[2].chan /\ handles[1].uid = handles[2].uid
    /\ handles[1].cb = handles[2].cb
    /\ handles[1].calls = 1 /\ handles[2].calls = 1
    /\ handles[1].cb \notin KeyListeners(handles[1].key)

====
